---- MODULE Spec2Model ----
(***************************************************************************)
(* Model of src/bot.py: the chat-member handler track_chat_members, the    *)
(* JSON file store behind load_users / save_users, and the asyncio event   *)
(* loop that runs the handler coroutines.                                  *)
(*                                                                         *)
(* A Python dict is a sequence of items [k, v] in insertion order.  A dict *)
(* key is either the int n (user.id) or the str that spells n (a JSON      *)
(* object name): the two are different keys of a dict.                     *)
(***************************************************************************)
EXTENDS Integers, Sequences, FiniteSets, TLC

\* ---------------------------------------------------------------- bounds
MaxTasks == 2
MaxClock == 300
MaxJoins == 2

\* ------------------------------------------------------- program constants
BAN_TIME_SECONDS == 300

\* ------------------------------------------------------------ input sets
HumanIds == {1, 2}
BotIds == {3}
UserIds == HumanIds \cup BotIds
ChatIds == {10, 20}
Statuses == {"left", "kicked", "member"}
TaskIds == 1..MaxTasks

\* A chat-member update reports a change of status.
Events ==
    { e \in [uid : UserIds, is_bot : BOOLEAN, old : Statuses, new : Statuses,
             chat_id : ChatIds] :
        /\ e.is_bot = (e.uid \in BotIds)
        /\ e.old # e.new }

VARIABLES
    file,       \* the content of DATA_FILE
    clock,      \* time.time(), in seconds
    tasks,      \* the handler coroutines: pending, running, suspended or idle
    running,    \* the coroutine that holds the event loop, 0 when none does
    nJoins,     \* how many joins of users have arrived
    last,       \* the handler invocation that finished in the last step
    tracked     \* history: per user, the join recorded and what followed it

vars == <<file, clock, tasks, running, nJoins, last, tracked>>

\* ------------------------------------------------------------ dict model
IntKey(n) == [t |-> "int", n |-> n]
StrKey(n) == [t |-> "str", n |-> n]

None == [none |-> TRUE]

DictHas(d, k) == \E i \in 1..Len(d) : d[i].k = k

DictGet(d, k) ==
    IF DictHas(d, k)
    THEN d[CHOOSE i \in 1..Len(d) : d[i].k = k].v
    ELSE None

DictSet(d, k, v) ==
    IF DictHas(d, k)
    THEN [i \in 1..Len(d) |-> IF d[i].k = k THEN [k |-> k, v |-> v] ELSE d[i]]
    ELSE Append(d, [k |-> k, v |-> v])

DictDel(d, k) == SelectSeq(d, LAMBDA it : it.k # k)

DictKeys(d) == { d[i].k : i \in 1..Len(d) }

DictEq(a, b) ==
    /\ DictKeys(a) = DictKeys(b)
    /\ \A k \in DictKeys(a) : DictGet(a, k) = DictGet(b, k)

\* ------------------------------------------------------------ JSON model
\* json.dump writes every dict key as a JSON object name, which is a string:
\* an int key n is written as the string that spells n.
JSONName(k) == StrKey(k.n)

json_dump(d) ==
    [i \in 1..Len(d) |-> [name |-> JSONName(d[i].k), value |-> d[i].v]]

\* json.load builds the dict member by member: a repeated name keeps its
\* first position and takes the last value.
RECURSIVE json_load_from(_, _, _)
json_load_from(ms, i, acc) ==
    IF i > Len(ms)
    THEN acc
    ELSE json_load_from(ms, i + 1, DictSet(acc, ms[i].name, ms[i].value))

\* A parser that keeps the first value of a repeated name.
RECURSIVE json_load_from_first(_, _, _)
json_load_from_first(ms, i, acc) ==
    IF i > Len(ms)
    THEN acc
    ELSE json_load_from_first(ms, i + 1,
             IF DictHas(acc, ms[i].name) THEN acc
             ELSE DictSet(acc, ms[i].name, ms[i].value))

json_load_first_wins(ms) == json_load_from_first(ms, 1, <<>>)

json_load(ms) == json_load_from(ms, 1, <<>>)

\* ------------------------------------------------------------ file store
NoFile == [exists |-> FALSE, complete |-> FALSE, members |-> <<>>]
Truncated == [exists |-> TRUE, complete |-> FALSE, members |-> <<>>]
Written(d) == [exists |-> TRUE, complete |-> TRUE, members |-> json_dump(d)]

load_users(f) ==
    IF ~f.exists THEN <<>>              \* FileNotFoundError
    ELSE IF ~f.complete THEN <<>>       \* json.JSONDecodeError
    ELSE json_load(f.members)

\* line 33: open(DATA_FILE, "w") empties the file, or fails with an OSError
\* (no data directory, no permission) and leaves it alone.
open_w(f, inp) == IF inp = "fail" THEN f ELSE Truncated

\* line 34: json.dump writes the whole mapping and the with block closes the
\* file, or a write fails and leaves the file without a complete document.
dump_close(f, users, inp) == IF inp = "fail" THEN Truncated ELSE Written(users)

\* ------------------------------------------------------------ handler
NoEvent == [uid |-> 0, is_bot |-> FALSE, old |-> "none", new |-> "none", chat_id |-> 0]

Untracked == [st |-> "untracked", direct |-> FALSE]

Idle ==
    [pc |-> "idle", ev |-> NoEvent, users |-> <<>>, snap |-> <<>>, user_data |-> None,
     file0 |-> NoFile, g0 |-> Untracked, tproc |-> 0, time_diff |-> 0,
     ban |-> "none", notify |-> "none", ban_chat |-> 0, bans |-> 0, notifies |-> 0,
     loads |-> 0, opens |-> 0, saves |-> 0, out |-> "none"]

Awaits == {"await_ban", "await_notify"}
Finished == {"done", "raised"}

\* line 68: user.id is an int.
user_id(ev) == IntKey(ev.uid)

\* The handler without its bot check.
IgnoreBot_never(ev) == FALSE

\* line 74
IgnoreBot(ev) == ev.is_bot

\* line 81
IsJoin(ev) == ev.old \in {"left", "kicked"} /\ ev.new = "member"

\* The handler that takes a member who stops being one for a leaver, however
\* the member went.
IsLeave_any_exit(ev) == ev.old = "member"

\* line 92
IsLeave(ev) == ev.old = "member" /\ ev.new = "left"

\* line 110
ShouldBan(time_diff) == time_diff < BAN_TIME_SECONDS

Return(tk, out) == [tk EXCEPT !.pc = "done", !.out = out]
Raise(tk, out) == [tk EXCEPT !.pc = "raised", !.out = out]

\* The handler without the check of line 97: user_data["join_time"] on None
\* is a TypeError.
Enter_unchecked(tk0, f, t) ==
    LET tk == [tk0 EXCEPT !.file0 = f, !.tproc = t]
        users == load_users(f)
        user_data == DictGet(users, user_id(tk.ev))
        loaded == [tk EXCEPT !.users = users, !.snap = users, !.loads = 1]
    IN  IF IgnoreBot(tk.ev) THEN Return(tk, "ignored_bot")
        ELSE IF IsJoin(tk.ev) THEN [loaded EXCEPT !.pc = "join_loaded"]
        ELSE IF IsLeave(tk.ev) THEN
            IF user_data = None
            THEN Raise(loaded, "typeerror")
            ELSE [loaded EXCEPT !.pc = "leave_loaded", !.user_data = user_data]
        ELSE Return(tk, "not_relevant")

\* The handler whose load lets the errors of lines 25-29 out: a missing or
\* incomplete file ends the join or the leave with that exception.
Enter_load_raises(tk0, f, t) ==
    LET tk == [tk0 EXCEPT !.file0 = f, !.tproc = t]
        users == load_users(f)
        user_data == DictGet(users, user_id(tk.ev))
        loaded == [tk EXCEPT !.users = users, !.snap = users, !.loads = 1]
    IN  IF IgnoreBot(tk.ev) THEN Return(tk, "ignored_bot")
        ELSE IF (IsJoin(tk.ev) \/ IsLeave(tk.ev)) /\ ~f.exists
        THEN Raise(tk, "filenotfounderror")
        ELSE IF (IsJoin(tk.ev) \/ IsLeave(tk.ev)) /\ ~f.complete
        THEN Raise(tk, "jsondecodeerror")
        ELSE IF IsJoin(tk.ev) THEN [loaded EXCEPT !.pc = "join_loaded"]
        ELSE IF IsLeave(tk.ev) THEN
            IF user_data = None
            THEN Return(loaded, "not_found")
            ELSE [loaded EXCEPT !.pc = "leave_loaded", !.user_data = user_data]
        ELSE Return(tk, "not_relevant")

\* lines 67-83 and 91-99: from the call of the handler to the store loaded.
Enter(tk0, f, t) ==
    LET tk == [tk0 EXCEPT !.file0 = f, !.tproc = t]
        users == load_users(f)
        user_data == DictGet(users, user_id(tk.ev))
        loaded == [tk EXCEPT !.users = users, !.snap = users, !.loads = 1]
    IN  IF IgnoreBot(tk.ev) THEN Return(tk, "ignored_bot")
        ELSE IF IsJoin(tk.ev) THEN [loaded EXCEPT !.pc = "join_loaded"]
        ELSE IF IsLeave(tk.ev) THEN
            IF user_data = None
            THEN Return(loaded, "not_found")
            ELSE [loaded EXCEPT !.pc = "leave_loaded", !.user_data = user_data]
        ELSE Return(tk, "not_relevant")

\* lines 84-88, up to the file opened for writing.
JoinOpen(tk, f, t, inp) ==
    LET users == DictSet(tk.users, user_id(tk.ev),
                         [join_time |-> t, chat_id |-> tk.ev.chat_id])
        set == [tk EXCEPT !.users = users, !.tproc = t]
    IN  IF inp = "fail"
        THEN [tk |-> Raise(set, "oserror"), file |-> open_w(f, inp)]
        ELSE [tk |-> [set EXCEPT !.pc = "join_opened", !.opens = 1],
              file |-> open_w(f, inp)]

\* lines 88-89: the mapping written, the join logged.
JoinWrite(tk, f, inp) ==
    IF inp = "fail"
    THEN [tk |-> Raise(tk, "oserror"), file |-> dump_close(f, tk.users, inp)]
    ELSE [tk |-> Return([tk EXCEPT !.saves = 1], "recorded"),
          file |-> dump_close(f, tk.users, inp)]

\* lines 101-107, up to the file opened for writing.
LeaveOpen(tk, f, t, inp) ==
    LET time_diff == t - tk.user_data.join_time
        timed == [tk EXCEPT !.time_diff = time_diff, !.tproc = t]
        deleted == [timed EXCEPT !.users = DictDel(tk.users, user_id(tk.ev))]
    IN  IF ~DictHas(tk.users, user_id(tk.ev))
        THEN [tk |-> Raise(timed, "keyerror"), file |-> f]
        ELSE IF inp = "fail"
        THEN [tk |-> Raise(deleted, "oserror"), file |-> open_w(f, inp)]
        ELSE [tk |-> [deleted EXCEPT !.pc = "leave_opened", !.opens = 1],
              file |-> open_w(f, inp)]

\* The ban call issued before the save of line 107 has written the mapping:
\* the file is still the one open(..., "w") emptied.
LeaveWrite_ban_before_save(tk, f, inp) ==
    IF inp = "fail"
    THEN [tk |-> Raise(tk, "oserror"), file |-> dump_close(f, tk.users, inp)]
    ELSE IF ShouldBan(tk.time_diff)
    THEN [tk |-> [tk EXCEPT !.pc = "await_ban", !.ban = "called",
                            !.bans = tk.bans + 1,
                            !.ban_chat = tk.ev.chat_id],
          file |-> f]
    ELSE [tk |-> Return([tk EXCEPT !.saves = 1], "no_ban_needed"),
          file |-> dump_close(f, tk.users, inp)]

\* lines 107-117 and 133-134: the mapping written, the ban decided and, when
\* due, the ban call issued.
LeaveWrite(tk, f, inp) ==
    LET saved == [tk EXCEPT !.saves = 1]
    IN  IF inp = "fail"
        THEN [tk |-> Raise(tk, "oserror"), file |-> dump_close(f, tk.users, inp)]
        ELSE IF ShouldBan(tk.time_diff)
        THEN [tk |-> [saved EXCEPT !.pc = "await_ban", !.ban = "called",
                                   !.bans = tk.bans + 1,
                                   !.ban_chat = tk.ev.chat_id],
              file |-> dump_close(f, tk.users, inp)]
        ELSE [tk |-> Return(saved, "no_ban_needed"),
              file |-> dump_close(f, tk.users, inp)]

\* A ban call that raised is issued a second time.
BanReturns_retry_once(tk, inp) ==
    IF inp = "fail"
    THEN IF tk.bans < 2
         THEN [tk EXCEPT !.bans = tk.bans + 1]
         ELSE Return([tk EXCEPT !.ban = "fail"], "failed_to_ban")
    ELSE [tk EXCEPT !.ban = "ok", !.notify = "called",
                    !.notifies = tk.notifies + 1, !.pc = "await_notify"]

\* A ban call that raised is issued again, until one returns.
BanReturns_retry_until_ok(tk, inp) ==
    IF inp = "fail"
    THEN [tk EXCEPT !.bans = (tk.bans % 2) + 1]
    ELSE [tk EXCEPT !.ban = "ok", !.notify = "called",
                    !.notifies = tk.notifies + 1, !.pc = "await_notify"]

\* lines 113-128 and 131-132: ban_chat_member returns or raises.
BanReturns(tk, inp) ==
    IF inp = "fail"
    THEN Return([tk EXCEPT !.ban = "fail"], "failed_to_ban")
    ELSE [tk EXCEPT !.ban = "ok", !.notify = "called",
                    !.notifies = tk.notifies + 1, !.pc = "await_notify"]

\* lines 125-132: send_message returns or raises; the one except clause of the
\* handler logs either failure as a failure to ban.
NotifyReturns(tk, inp) ==
    IF inp = "fail"
    THEN Return([tk EXCEPT !.notify = "fail"], "failed_to_ban")
    ELSE Return([tk EXCEPT !.notify = "ok"], "notified")

\* The leave branch with the user looked up and deleted under str(user.id),
\* the key the loaded mapping has.
Enter_str(tk0, f, t) ==
    LET tk == [tk0 EXCEPT !.file0 = f, !.tproc = t]
        users == load_users(f)
        user_data == DictGet(users, StrKey(tk.ev.uid))
        loaded == [tk EXCEPT !.users = users, !.snap = users, !.loads = 1]
    IN  IF IgnoreBot(tk.ev) THEN Return(tk, "ignored_bot")
        ELSE IF IsJoin(tk.ev) THEN [loaded EXCEPT !.pc = "join_loaded"]
        ELSE IF IsLeave(tk.ev) THEN
            IF user_data = None
            THEN Return(loaded, "not_found")
            ELSE [loaded EXCEPT !.pc = "leave_loaded", !.user_data = user_data]
        ELSE Return(tk, "not_relevant")

LeaveOpen_str(tk, f, t, inp) ==
    LET time_diff == t - tk.user_data.join_time
        timed == [tk EXCEPT !.time_diff = time_diff, !.tproc = t]
        deleted == [timed EXCEPT !.users = DictDel(tk.users, StrKey(tk.ev.uid))]
    IN  IF inp = "fail"
        THEN [tk |-> Raise(deleted, "oserror"), file |-> open_w(f, inp)]
        ELSE [tk |-> [deleted EXCEPT !.pc = "leave_opened", !.opens = 1],
              file |-> open_w(f, inp)]

\* The ban decided with <= in the place of <.
LeaveWrite_inclusive(tk, f, inp) ==
    LET saved == [tk EXCEPT !.saves = 1]
    IN  IF inp = "fail"
        THEN [tk |-> Raise(tk, "oserror"), file |-> dump_close(f, tk.users, inp)]
        ELSE IF tk.time_diff <= BAN_TIME_SECONDS
        THEN [tk |-> [saved EXCEPT !.pc = "await_ban", !.ban = "called",
                                   !.bans = tk.bans + 1,
                                   !.ban_chat = tk.ev.chat_id],
              file |-> dump_close(f, tk.users, inp)]
        ELSE [tk |-> Return(saved, "no_ban_needed"),
              file |-> dump_close(f, tk.users, inp)]

\* The notification sent whether the ban call returned or raised.
BanReturns_notify_anyway(tk, inp) ==
    [tk EXCEPT !.ban = inp, !.notify = "called",
               !.notifies = tk.notifies + 1, !.pc = "await_notify"]

\* The handler that finds its users (str keys) and bans up to and including
\* the ban time.
track_chat_members_inclusive(tk, f, t, inp) ==
    CASE tk.pc = "start" -> [tk |-> Enter_str(tk, f, t), file |-> f]
      [] tk.pc = "join_loaded" -> JoinOpen(tk, f, t, inp)
      [] tk.pc = "join_opened" -> JoinWrite(tk, f, inp)
      [] tk.pc = "leave_loaded" -> LeaveOpen_str(tk, f, t, inp)
      [] tk.pc = "leave_opened" -> LeaveWrite_inclusive(tk, f, inp)
      [] tk.pc = "await_ban" -> [tk |-> BanReturns(tk, inp), file |-> f]
      [] tk.pc = "await_notify" -> [tk |-> NotifyReturns(tk, inp), file |-> f]

\* The handler that finds its users (str keys) and notifies them whether or
\* not the ban succeeded.
track_chat_members_notify_anyway(tk, f, t, inp) ==
    CASE tk.pc = "start" -> [tk |-> Enter_str(tk, f, t), file |-> f]
      [] tk.pc = "join_loaded" -> JoinOpen(tk, f, t, inp)
      [] tk.pc = "join_opened" -> JoinWrite(tk, f, inp)
      [] tk.pc = "leave_loaded" -> LeaveOpen_str(tk, f, t, inp)
      [] tk.pc = "leave_opened" -> LeaveWrite(tk, f, inp)
      [] tk.pc = "await_ban" -> [tk |-> BanReturns_notify_anyway(tk, inp), file |-> f]
      [] tk.pc = "await_notify" -> [tk |-> NotifyReturns(tk, inp), file |-> f]

\* lines 63-136: the handler coroutine, from where it stands to its next
\* statement that touches the file, awaits or returns.
track_chat_members(tk, f, t, inp) ==
    CASE tk.pc = "start" -> [tk |-> Enter(tk, f, t), file |-> f]
      [] tk.pc = "join_loaded" -> JoinOpen(tk, f, t, inp)
      [] tk.pc = "join_opened" -> JoinWrite(tk, f, inp)
      [] tk.pc = "leave_loaded" -> LeaveOpen(tk, f, t, inp)
      [] tk.pc = "leave_opened" -> LeaveWrite(tk, f, inp)
      [] tk.pc = "await_ban" -> [tk |-> BanReturns(tk, inp), file |-> f]
      [] tk.pc = "await_notify" -> [tk |-> NotifyReturns(tk, inp), file |-> f]

\* ------------------------------------------------------------ history
\* What the finished invocation tk means for the user it was about.
Resolve(tr, tk) ==
    LET u == tk.ev.uid
    IN  IF tk.ev.is_bot THEN tr
        ELSE IF IsJoin(tk.ev) /\ tk.saves = 1
        THEN [tr EXCEPT ![u] = [st |-> "tracked", direct |-> TRUE]]
        ELSE IF IsLeave(tk.ev) /\ tr[u].st = "tracked" /\ tk.pc = "done"
        THEN [tr EXCEPT ![u] = [st |-> "left", direct |-> FALSE]]
        ELSE [tr EXCEPT ![u].direct = FALSE]

\* What is kept of the finished invocation tk for the state that follows it.
Kind(ev) ==
    IF ev.is_bot THEN "bot"
    ELSE IF IsJoin(ev) THEN "join"
    ELSE IF IsLeave(ev) THEN "leave"
    ELSE "other"

\* The change of status an update reports, read off the two statuses: a user
\* who comes in, a member who goes, a member whom an admin removes, any other.
Transition(ev) ==
    IF ev.old \in {"left", "kicked"} /\ ev.new = "member" THEN "comes_in"
    ELSE IF ev.old = "member" /\ ev.new = "left" THEN "goes"
    ELSE IF ev.old = "member" /\ ev.new = "kicked" THEN "removed"
    ELSE "other"

NoSummary ==
    [kind |-> "none", uid |-> 0, trans |-> "none", chat_id |-> 0, pc |-> "idle", out |-> "none",
     ban |-> "none", notify |-> "none", ban_chat |-> 0, bans |-> 0, notifies |-> 0,
     loads |-> 0, opens |-> 0, saves |-> 0,
     g0 |-> Untracked, tproc |-> 0, time_diff |-> 0, file0 |-> NoFile, users |-> <<>>]

Summary(tk) ==
    [kind |-> Kind(tk.ev), uid |-> tk.ev.uid,
     trans |-> IF tk.ev.is_bot THEN "none" ELSE Transition(tk.ev),
     chat_id |-> IF Kind(tk.ev) \in {"join", "leave"} THEN tk.ev.chat_id ELSE 0,
     pc |-> tk.pc, out |-> tk.out,
     ban |-> tk.ban, notify |-> tk.notify, ban_chat |-> tk.ban_chat,
     bans |-> tk.bans, notifies |-> tk.notifies,
     loads |-> tk.loads, opens |-> tk.opens, saves |-> tk.saves,
     g0 |-> tk.g0, tproc |-> tk.tproc, time_diff |-> tk.time_diff,
     file0 |-> tk.file0, users |-> tk.users]

\* ------------------------------------------------------------ event loop
\* Handlers that run in threads of their own: nothing holds one back.
HoldsLoop_preemptive(h) == TRUE

\* line 63: the handler is a coroutine of the one asyncio event loop, which
\* runs it without interruption up to its next await (lines 113, 125).
HoldsLoop(h) == running \in {0, h}

FreeSlot(h) ==
    /\ tasks[h].pc = "idle"
    /\ \A g \in TaskIds : g < h => tasks[g].pc # "idle"

Init ==
    /\ file = NoFile
    /\ clock = 0
    /\ tasks = [h \in TaskIds |-> Idle]
    /\ running = 0
    /\ nJoins = 0
    /\ last = NoSummary
    /\ tracked = [u \in UserIds |-> Untracked]

\* The event loop runs the coroutine in slot h, which stands at tk0, up to its
\* next statement that touches the file, awaits or returns.
Advance(h, tk0, inp) ==
    \E r \in {track_chat_members(tk0, file, clock, inp)} :
        /\ file' = r.file
        /\ IF r.tk.pc \in Finished
           THEN /\ tasks' = [tasks EXCEPT ![h] = Idle]
                /\ last' = Summary(r.tk)
                /\ running' = 0
                /\ tracked' = Resolve(tracked, r.tk)
           ELSE /\ tasks' = [tasks EXCEPT ![h] = r.tk]
                /\ last' = NoSummary
                /\ running' = IF r.tk.pc \in Awaits THEN 0 ELSE h
                /\ tracked' = tracked
        /\ UNCHANGED clock

\* lines 154-157: an update arrives and the event loop calls the handler,
\* which runs up to the store loaded (or to its return).
Dispatch ==
    \E e \in Events, h \in TaskIds :
        /\ HoldsLoop(0)
        /\ FreeSlot(h)
        /\ Kind(e) = "join" => nJoins < MaxJoins
        /\ nJoins' = nJoins + (IF Kind(e) = "join" THEN 1 ELSE 0)
        /\ Advance(h, [Idle EXCEPT !.pc = "start", !.ev = e,
                                   !.g0 = tracked[e.uid]], "ok")

\* The event loop runs a handler coroutine one step further: through the next
\* file operation, or through the return of the call it awaits.
Step ==
    \E h \in TaskIds, inp \in {"ok", "fail"} :
        /\ tasks[h].pc # "idle"
        /\ HoldsLoop(h)
        /\ Advance(h, tasks[h], inp)
        /\ UNCHANGED nJoins

\* time.time() advances while no handler is running: from the start to one
\* second before the ban time, and then second by second.
Tick ==
    /\ running = 0
    /\ clock < MaxClock
    /\ clock' = clock + (IF clock = 0 THEN BAN_TIME_SECONDS - 1 ELSE 1)
    /\ last' = NoSummary
    /\ UNCHANGED <<file, tasks, running, nJoins, tracked>>

\* The process is killed and started again: the coroutines are gone, the file
\* is what it was at that moment. The users whose events were in hand have
\* had an event since their join.
Crash ==
    /\ tasks' = [h \in TaskIds |-> Idle]
    /\ running' = 0
    /\ last' = NoSummary
    /\ tracked' = [u \in UserIds |->
                     IF \E h \in TaskIds : tasks[h].pc # "idle" /\ tasks[h].ev.uid = u
                     THEN [tracked[u] EXCEPT !.direct = FALSE]
                     ELSE tracked[u]]
    /\ UNCHANGED <<file, clock, nJoins>>

Next == Dispatch \/ Step \/ Tick \/ Crash

Spec == Init /\ [][Next]_vars

\* ------------------------------------------------------------ leave branch
\* Lines 101-134 taken on their own: the leave handler stands at line 101 with
\* the record user_data that the lookup of line 95 returned, for every such
\* record, every moment and every mapping that holds the user under the key
\* the handler uses. The handler runs from there with no other event.
BranchTimes == {0, BAN_TIME_SECONDS - 1, BAN_TIME_SECONDS}

InitBranch ==
    \E e \in Events, t \in BranchTimes, c \in ChatIds :
        \E rest \in {<<>>} \cup
                    { <<[k |-> StrKey(o), v |-> [join_time |-> 0, chat_id |-> c2]]>> :
                        o \in HumanIds \ {e.uid}, c2 \in ChatIds } :
            \E users \in {<<[k |-> user_id(e), v |-> [join_time |-> 0, chat_id |-> c]]>>
                            \o rest} :
                /\ Kind(e) = "leave"
                /\ file = Written(users)
                /\ clock = t
                /\ tasks = [h \in TaskIds |->
                              IF h = 1
                              THEN [Idle EXCEPT !.pc = "leave_loaded", !.ev = e,
                                                !.users = users, !.snap = users,
                                                !.user_data = DictGet(users, user_id(e)),
                                                !.file0 = Written(users),
                                                !.g0 = [st |-> "tracked", direct |-> TRUE],
                                                !.tproc = t, !.loads = 1]
                              ELSE Idle]
                /\ running = 1
                /\ nJoins = 0
                /\ last = NoSummary
                /\ tracked = [u \in UserIds |->
                                IF u = e.uid THEN [st |-> "tracked", direct |-> TRUE]
                                ELSE Untracked]

SpecBranch == InitBranch /\ [][Step]_vars

\* lines 113 and 125: an awaited call returns or raises in the end, and the
\* event loop then resumes the coroutine.
FairBranch == SpecBranch /\ WF_vars(Step)

\* ============================================================ properties
\* The persisted store as load_users reads it, and the record it holds for
\* user u (under any key that spells u).
StoreHasUser(f, u) == \E k \in DictKeys(load_users(f)) : k.n = u

StoreRecord(f, u) ==
    LET d == load_users(f)
    IN  d[CHOOSE i \in 1..Len(d) : d[i].k.n = u].v

\* The finished leave of a user whose join was recorded: the record that
\* join left in the store, and the time between the two.
TrackedLeave(r) ==
    /\ r.kind = "leave"
    /\ r.g0.st = "tracked"
    /\ StoreHasUser(r.file0, r.uid)

Elapsed(r) == r.tproc - StoreRecord(r.file0, r.uid).join_time

NoCalls(r) == r.ban = "none" /\ r.notify = "none"

SaveRegion == {"join_loaded", "join_opened", "leave_loaded", "leave_opened"}

\* C1: a user whose join was recorded and whose next event is a leave less
\* than BAN_TIME_SECONDS later is banned by the processing of that leave and,
\* when the ban call succeeds, notified.
C1_QuickLeaveBans ==
    (/\ TrackedLeave(last)
     /\ last.g0.direct
     /\ last.pc = "done"
     /\ Elapsed(last) < BAN_TIME_SECONDS)
    => /\ last.ban # "none"
       /\ last.ban = "ok" => last.notify # "none"

\* C2: after the leave of a tracked user has been processed, the persisted
\* store holds no record for that user.
C2_LeaveRemovesRecord ==
    (TrackedLeave(last) /\ last.pc = "done") => ~StoreHasUser(file, last.uid)

\* C3: a leave processed BAN_TIME_SECONDS or more after the recorded join,
\* the exact ban time included, makes no ban call and no notify call.
C3_NoBanFromThresholdOn ==
    /\ (TrackedLeave(last) /\ Elapsed(last) >= BAN_TIME_SECONDS) => NoCalls(last)
    /\ \A h \in TaskIds :
          LET r == Summary(tasks[h])
          IN  (TrackedLeave(r) /\ Elapsed(r) >= BAN_TIME_SECONDS) => NoCalls(r)

C3_Witness ==
    /\ TrackedLeave(last)
    /\ last.pc = "done"
    /\ Elapsed(last) = BAN_TIME_SECONDS
    /\ NoCalls(last)

\* C4: once the leaves of two different tracked users have both been
\* processed, in whatever order their handlers ran, the persisted store holds
\* a record for neither.
C4_BothLeaversRemoved ==
    \A u1 \in HumanIds, u2 \in HumanIds :
        (u1 # u2 /\ tracked[u1].st = "left" /\ tracked[u2].st = "left")
        => (~StoreHasUser(file, u1) /\ ~StoreHasUser(file, u2))

\* C5: load-mutate-save sequences never interleave: while a handler is between
\* its load and the end of its save no other handler is, and until it opens
\* the file the store still is what it loaded.
C5_Serialized ==
    \A h \in TaskIds :
        tasks[h].pc \in SaveRegion
        => /\ \A g \in TaskIds : g # h => tasks[g].pc \notin SaveRegion
           /\ tasks[h].opens = 0 => DictEq(load_users(file), tasks[h].snap)

C5_Witness ==
    \E h \in TaskIds :
        /\ tasks[h].pc = "join_loaded"
        /\ tasks[h].snap # <<>>
        /\ running = h

C7_UnknownLeaver ==
    (last.kind = "leave" /\ ~StoreHasUser(last.file0, last.uid))
    => /\ last.pc = "done"
       /\ NoCalls(last)
       /\ last.opens = 0
       /\ last.saves = 0
       /\ file = last.file0

C7_Witness ==
    /\ last.kind = "leave"
    /\ ~StoreHasUser(last.file0, last.uid)
    /\ load_users(last.file0) # <<>>
    /\ last.out = "not_found"

\* C8: an event of a bot neither loads nor saves the store and makes no ban
\* or notify call, whatever the store holds.
C8_BotsIgnored ==
    last.kind = "bot"
    => /\ last.pc = "done"
       /\ last.loads = 0
       /\ last.opens = 0
       /\ last.saves = 0
       /\ NoCalls(last)
       /\ file = last.file0

C8_Witness ==
    /\ last.kind = "bot"
    /\ last.out = "ignored_bot"
    /\ load_users(file) # <<>>

\* C9: load_users after save_users(m) returns a mapping identical to m, for
\* every mapping m the handler passes to save_users.
C9_RoundTrip ==
    (last.pc = "done" /\ last.saves = 1) => DictEq(load_users(file), last.users)

\* C10: while a save is under way the persisted storage reads as the complete
\* prior mapping or as the complete new mapping.
C10_AtomicSave ==
    \A h \in TaskIds :
        tasks[h].opens = 1
        => \/ DictEq(load_users(file), tasks[h].snap)
           \/ DictEq(load_users(file), json_load(json_dump(tasks[h].users)))

\* The file holds no readable mapping: it is missing, or what it holds is not
\* a complete JSON document.
Unreadable(f) == ~f.exists \/ ~f.complete

\* C11: with the file missing or corrupt load_users returns the empty mapping
\* to its caller, and the join or leave processed in that state behaves as
\* with no user tracked: the join that completes leaves a store of exactly its
\* own record, the leave takes the not-found path and touches nothing.
C11_LoadOnMissingOrCorrupt ==
    /\ \A h \in TaskIds :
          (tasks[h].loads = 1 /\ Unreadable(tasks[h].file0)) => tasks[h].snap = <<>>
    /\ (last.kind = "join" /\ Unreadable(last.file0))
       => /\ last.loads = 1
          /\ last.out \in {"recorded", "oserror"}
          /\ last.out = "recorded"
             => /\ DictKeys(load_users(file)) = {StrKey(last.uid)}
                /\ StoreRecord(file, last.uid)
                     = [join_time |-> last.tproc, chat_id |-> last.chat_id]
    /\ (last.kind = "leave" /\ Unreadable(last.file0))
       => /\ last.loads = 1
          /\ last.out = "not_found"
          /\ last.pc = "done"
          /\ last.opens = 0
          /\ NoCalls(last)
          /\ file = last.file0

C11_Witness ==
    /\ last.kind = "join"
    /\ last.file0 = Truncated
    /\ last.out = "recorded"
    /\ Len(load_users(file)) = 1

\* C12: the store, as load_users reads it, holds at most one record for a
\* user, and after a join of a user whose earlier join is still recorded it
\* holds for that user the join time and the chat of the later join.
C12_LastJoinWins ==
    /\ \A u \in UserIds :
          LET d == load_users(file)
          IN  Cardinality({i \in 1..Len(d) : d[i].k.n = u}) <= 1
    /\ (last.kind = "join" /\ last.out = "recorded")
       => StoreRecord(file, last.uid)
            = [join_time |-> last.tproc, chat_id |-> last.chat_id]

C12_Witness ==
    /\ last.kind = "join"
    /\ last.out = "recorded"
    /\ last.g0.st = "tracked"
    /\ StoreHasUser(last.file0, last.uid)
    /\ StoreRecord(last.file0, last.uid)
         # [join_time |-> last.tproc, chat_id |-> last.chat_id]
    /\ StoreRecord(last.file0, last.uid).chat_id # last.chat_id
    /\ StoreRecord(last.file0, last.uid).join_time < last.tproc

\* C13: whatever fails while an event is processed (the read of the store, the
\* write of the store, the ban call, the notify call), the handler returns
\* normally: no invocation ends with an exception.
C13_NoFailurePropagates ==
    /\ last.kind # "none" => last.pc = "done"
    /\ \A h \in TaskIds : tasks[h].pc # "raised"

C17_RecordStays ==
    \A u \in HumanIds :
        (/\ tracked[u].st = "tracked"
         /\ tracked[u].direct
         /\ \A h \in TaskIds : tasks[h].pc = "idle")
        => StoreHasUser(file, u)

\* The file as the join of user u in chat a followed by the join of u in
\* another chat left it: the later record stands behind the earlier one.
JoinedThenElsewhere(f, u, a) ==
    /\ f.exists
    /\ f.complete
    /\ \E i \in 1..Len(f.members), j \in 1..Len(f.members) :
          /\ i < j
          /\ f.members[i].name.n = u
          /\ f.members[j].name.n = u
          /\ f.members[i].value.chat_id = a
          /\ f.members[j].value.chat_id # a

\* C18: a user joins chat A, then chat B, then leaves chat A: the leave is
\* evaluated against the record of the join of chat B, the elapsed time taken
\* from its join time and the ban, when one is made, issued for its chat.
C18_LeaveAgainstLatestJoin ==
    (/\ TrackedLeave(last)
     /\ last.g0.direct
     /\ JoinedThenElsewhere(last.file0, last.uid, last.chat_id))
    => /\ last.pc = "done"
       /\ last.out # "not_found"
       /\ last.time_diff = Elapsed(last)
       /\ last.ban # "none" => last.ban_chat = StoreRecord(last.file0, last.uid).chat_id

C20_OtherTransitionsIgnored ==
    /\ (last.uid \in HumanIds /\ last.trans \in {"removed", "other"})
       => /\ last.pc = "done"
          /\ last.out = "not_relevant"
          /\ last.loads = 0
          /\ last.opens = 0
          /\ last.saves = 0
          /\ NoCalls(last)
          /\ file = last.file0
    /\ \A h \in TaskIds :
          tasks[h].pc # "idle" => Transition(tasks[h].ev) \in {"comes_in", "goes"}

C20_Witness ==
    /\ last.uid \in HumanIds
    /\ last.trans = "removed"
    /\ last.g0.st = "tracked"
    /\ last.out = "not_relevant"
    /\ StoreHasUser(file, last.uid)

====
